---- MODULE Spec2Model ----
(***************************************************************************)
(* Slot-processing pipeline of the blob indexer.                           *)
(*                                                                         *)
(* The repository holds two range drivers with their per-slot pipelines:   *)
(*   SlotsProcessor (src/src/slots_processor/mod.rs): closed range in      *)
(*     either direction, one-step reorg detector, structured abort error;  *)
(*   SlotProcessor  (src/src/slot_processor.rs): half-open forward range,  *)
(*     retry with exponential backoff, update_slot persistence.            *)
(* Both are modelled; `processor` says which one a behaviour runs.         *)
(* Every call that crosses the system boundary (beacon client, execution   *)
(* provider, downstream indexer) is one step; its answer is drawn from a   *)
(* small set of responses.  `calls` is the trace of those calls and of     *)
(* the process_slot invocations, in program order.                         *)
(***************************************************************************)
EXTENDS Integers, Sequences, FiniteSets, TLC

\* ------------------------------------------------------------------ bounds

\* Slots are u32 in the source; the model keeps the arithmetic modulo
\* 2^SlotBits so that 0 - 1 wraps inside the model's slot domain.
SlotBits == 2
\* Largest distance between initial_slot and final_slot of a range.
MaxSpan == 2
\* The backoff budget (60 s of elapsed time) as a number of attempts.
MaxAttempts == 2

SlotModulus == 2 ^ SlotBits
U32_MAX == SlotModulus - 1
Slots == 0 .. U32_MAX

\* ------------------------------------------------------------ option type

\* Option<T>: None is the empty sequence, Some(x) the one-element sequence.
None == << >>
Some(x) == << x >>
IsSome(o) == Len(o) = 1
Unwrap(o) == o[1]

\* ------------------------------------------------------- external answers

Roots == {1, 2}
NoRoot == 0

\* beacon_client.get_block_header: Err, Ok(None), Ok(Some(header)).
\* header.message.slot is the slot that was asked for.
NoHeader == [tag |-> "NotFetched", root |-> NoRoot, parent_root |-> NoRoot]

BlockHeaderResponses ==
    { [tag |-> "Err", root |-> NoRoot, parent_root |-> NoRoot],
      [tag |-> "None", root |-> NoRoot, parent_root |-> NoRoot] }
    \cup { [tag |-> "Some", root |-> r, parent_root |-> p] : r \in Roots, p \in Roots }

ExecutionBlockHash == 7

\* BlockBody of a beacon block.
BlockBodies ==
    { [execution_payload |-> p, blob_kzg_commitments |-> c] :
        p \in {None, Some(ExecutionBlockHash)},
        c \in {None, Some(<< >>), Some(<< 1 >>)} }

NoBody == [execution_payload |-> None, blob_kzg_commitments |-> None]

NoBlock == [tag |-> "NotFetched", body |-> NoBody]

\* beacon_client.get_block: Err, Ok(None), Ok(Some(block)).
BlockResponses ==
    { [tag |-> t, body |-> NoBody] : t \in {"Err", "None"} }
    \cup { [tag |-> "Some", body |-> b] : b \in BlockBodies }

\* versioned hash of a KZG commitment: a deterministic tag of the commitment.
calculate_versioned_hash(commitment) == 10 + commitment

\* A declared versioned hash that does not parse as a 32-byte hash.
MalformedHash == 99

Tx(hash, to, versioned_hashes) ==
    [hash |-> hash, to |-> to, versioned_hashes |-> versioned_hashes]

\* Execution blocks the provider may answer with: no blob transaction, one
\* blob transaction after a plain one, two blob transactions around a plain
\* one (the first declaring two versioned hashes), a missing block number, a
\* blob transaction without `to`, a versioned hash that does not parse.
ExecutionBlocks ==
    { [number |-> Some(100), transactions |-> << Tx(1, Some(5), << >>) >>],
      [number |-> Some(100),
       transactions |-> << Tx(1, Some(5), << >>), Tx(2, Some(5), << 11 >>) >>],
      [number |-> Some(100),
       transactions |-> << Tx(2, Some(5), << 11, 12 >>), Tx(1, Some(5), << >>),
                           Tx(3, Some(5), << 13 >>) >>],
      [number |-> None, transactions |-> << Tx(2, Some(5), << 11 >>) >>],
      [number |-> Some(100), transactions |-> << Tx(2, None, << 11 >>) >>],
      [number |-> Some(100), transactions |-> << Tx(2, Some(5), << MalformedHash >>) >>] }

EmptyExecutionBlock == [number |-> None, transactions |-> << >>]
NoExecutionBlock == [tag |-> "NotFetched", block |-> EmptyExecutionBlock]

\* provider.get_block_with_txs: Err, Ok(None), Ok(Some(block)).
ExecutionBlockResponses ==
    { [tag |-> t, block |-> EmptyExecutionBlock] : t \in {"Err", "None"} }
    \cup { [tag |-> "Some", block |-> b] : b \in ExecutionBlocks }

Blob(index, kzg_commitment) == [index |-> index, kzg_commitment |-> kzg_commitment]

\* Sidecars: empty, the blob of commitment 1, a blob of another commitment,
\* a blob whose index is not a number, the blobs of commitments 1, 2 and 3.
Sidecars ==
    { << >>, << Blob("0", 1) >>, << Blob("0", 2) >>, << Blob("x", 1) >>,
      << Blob("0", 1), Blob("1", 2), Blob("2", 3) >> }

NoBlobs == [tag |-> "NotFetched", blobs |-> << >>]

\* beacon_client.get_blobs: Err, Ok(None), Ok(Some(blobs)).
BlobsResponses ==
    { [tag |-> t, blobs |-> << >>] : t \in {"Err", "None"} }
    \cup { [tag |-> "Some", blobs |-> s] : s \in Sidecars }

\* A downstream call (update_slot, handle_reorged_slot) succeeds or fails.
CallResults == {"Ok", "Err"}

\* blobscan_client.index answers 2xx, or fails with a network error (timeout,
\* connection, 5xx) or with an HTTP 4xx.
IndexResults == {"Ok", "NetworkError", "Http4xx"}

\* The reason string of a failed index call.
IndexFailure(r) == IF r = "Http4xx" THEN "index failed: 4xx" ELSE "index failed: network"

\* ------------------------------------------------------------------- state

VARIABLES
    processor,        \* "SlotsProcessor" or "SlotProcessor"
    initial_slot,     \* first argument of process_slots
    final_slot,       \* second argument of process_slots
    current_slot,     \* loop variable of process_slots
    pc,               \* position of the single task
    last_block,       \* SlotsProcessor.last_block: Option<BlockData>
    entry_last_block, \* last_block as it was when process_slot was entered
    header,           \* answer of get_block_header in the current attempt
    beacon_block,     \* answer of get_block in the current attempt
    execution_block,  \* answer of get_block_with_txs in the current attempt
    blobs,            \* answer of get_blobs in the current attempt
    entities,         \* what the current attempt handed to index
    chain_unchanged,  \* the header answers so far are those of one fixed chain
    attempts,         \* process_slot attempts made on current_slot by the retry
    outcome,          \* what the last process_slot call returned
    calls,            \* trace of process_slot invocations and external calls
    result            \* what process_slots returned

vars == << processor, initial_slot, final_slot, current_slot, pc, last_block,
           entry_last_block, header, beacon_block, execution_block, blobs,
           entities, chain_unchanged, attempts, outcome, calls, result >>

\* The entity vectors before the assembly.
NoEntities == [block |-> None, transactions |-> << >>, blobs |-> << >>]

\* The scratch state of the attempt in progress: the answers and the
\* entities.
fetched == << header, beacon_block, execution_block, blobs, entities >>

\* A new attempt starts with nothing fetched and nothing assembled.
ResetFetched ==
    /\ header' = NoHeader
    /\ beacon_block' = NoBlock
    /\ execution_block' = NoExecutionBlock
    /\ blobs' = NoBlobs
    /\ entities' = NoEntities

NoOutcome == [kind |-> "none", reason |-> ""]
Running == [kind |-> "running", structured |-> FALSE, initial_slot |-> 0,
            final_slot |-> 0, failed_slot |-> 0, error |-> ""]

Call(op, slot, arg) == [op |-> op, slot |-> slot, arg |-> arg]

Abs(x) == IF x < 0 THEN -x ELSE x
Min(x, y) == IF x < y THEN x ELSE y

\* BlockData::from(BlockHeader)
BlockData(root, slot) == [root |-> root, slot |-> slot]

\* SlotsProcessor::new leaves last_block unset, and a processor that already
\* ran a range holds the last header it saw; the legacy SlotProcessor has no
\* such field.
InitialLastBlocks(p) ==
    IF p = "SlotsProcessor"
      THEN {None} \cup { Some(BlockData(r, 0)) : r \in Roots }
      ELSE {None}

\* process_slots(initial_slot, final_slot) is called with some range.
\* Nothing but current_slot - 1 depends on the value of a slot, and a range
\* whose lower end is 0 visits slot 0 and slots above it, so the ranges start
\* or end at slot 0.
Init ==
    /\ processor \in {"SlotsProcessor", "SlotProcessor"}
    /\ initial_slot \in Slots
    /\ final_slot \in Slots
    /\ Abs(initial_slot - final_slot) <= MaxSpan
    /\ Min(initial_slot, final_slot) = 0
    /\ current_slot = initial_slot
    /\ pc = "process_slots"
    /\ last_block \in InitialLastBlocks(processor)
    /\ entry_last_block = last_block
    /\ header = NoHeader
    /\ beacon_block = NoBlock
    /\ execution_block = NoExecutionBlock
    /\ blobs = NoBlobs
    /\ entities = NoEntities
    /\ chain_unchanged = TRUE
    /\ attempts = 0
    /\ outcome = NoOutcome
    /\ calls = << >>
    /\ result = Running

\* ------------------------------------------------- SlotsProcessor (mod.rs)

Ok(reason) == [kind |-> "ok", reason |-> reason]
Err(reason) == [kind |-> "err", reason |-> reason]
Pending == [kind |-> "pending", reason |-> ""]
Continue == [kind |-> "continue", reason |-> ""]

\* let is_reverse_processing = initial_slot > final_slot;
is_reverse_processing == initial_slot > final_slot

\* Mutant: the reverse loop passes Some(true) too.
enable_reorg_detection_always == TRUE

\* Some(false) in the reverse loop, Some(true) in the forward loop.
enable_reorg_detection == ~is_reverse_processing

\* The slot the for loop visits after `slot`: (final..=initial).rev() or
\* initial..=final.
NextInRange(slot) == IF is_reverse_processing THEN slot - 1 ELSE slot + 1

\* The range (final_slot..=initial_slot).rev() or initial_slot..=final_slot
\* is exhausted once the loop variable has taken the value final_slot.
RangeExhausted == outcome # NoOutcome /\ current_slot = final_slot

FailedSlotsProcessing(failed_slot, error) ==
    [kind |-> "Err", structured |-> TRUE, initial_slot |-> initial_slot,
     final_slot |-> final_slot, failed_slot |-> failed_slot, error |-> error]

ResultOk == [kind |-> "Ok", structured |-> FALSE, initial_slot |-> 0,
             final_slot |-> 0, failed_slot |-> 0, error |-> ""]

BoolArg(b) == IF b THEN "true" ELSE "false"

\* The entry of process_slot(slot, enable_reorg_detection): the reorg check
\* runs first when it is enabled, the beacon block fetch otherwise.
EntryPc(reorg) == IF reorg THEN "get_block_header" ELSE "get_block"

\* One turn of the for loop of process_slots: return the structured error
\* when the slot just processed failed, Ok(()) when the range is exhausted,
\* and call process_slot on the next slot otherwise.
SlotsProcessor_process_slots ==
    /\ processor = "SlotsProcessor"
    /\ pc = "process_slots"
    /\ IF outcome.kind = "err"
         THEN /\ result' = FailedSlotsProcessing(current_slot, outcome.reason)
              /\ pc' = "done"
              /\ UNCHANGED << current_slot, calls, outcome, entry_last_block, fetched >>
         ELSE IF RangeExhausted
           THEN /\ result' = ResultOk
                /\ pc' = "done"
                /\ UNCHANGED << current_slot, calls, outcome, entry_last_block, fetched >>
           ELSE LET slot == IF outcome = NoOutcome THEN initial_slot
                            ELSE NextInRange(current_slot)
                IN /\ current_slot' = slot
                   /\ calls' = Append(calls, Call("process_slot", slot,
                                                  BoolArg(enable_reorg_detection)))
                   /\ pc' = EntryPc(enable_reorg_detection)
                   /\ outcome' = Pending
                   /\ entry_last_block' = last_block
                   /\ ResetFetched
                   /\ UNCHANGED result
    /\ UNCHANGED << processor, initial_slot, final_slot, last_block, chain_unchanged,
                    attempts >>

\* Mutant: the comparison inverted.
ParentRootMismatch_inverted(parent_root, block) == parent_root = block.root

\* beacon_block_header.header.message.parent_root != block.root
ParentRootMismatch(parent_root, block) == parent_root # block.root

\* if let Some(block) = &self.last_block { if parent_root != block.root {..} }
ReorgDetected(parent_root) ==
    IsSome(last_block) /\ ParentRootMismatch(parent_root, Unwrap(last_block))

\* Mutant: an absent header overwrites last_block instead of returning.
HeaderStep_absent_updates(r) ==
    CASE r.tag = "Err" -> "fail"
      [] r.tag = "Some" /\ ReorgDetected(r.parent_root) -> "handle_reorged_slot"
      [] OTHER -> "update"

\* What _detect_and_handle_reorg does with the answer of get_block_header:
\* the error, a return without touching last_block (absent header), the
\* handle_reorged_slot call, or the update of last_block.
HeaderStep(r) ==
    CASE r.tag = "Err" -> "fail"
      [] r.tag = "None" -> "return"
      [] r.tag = "Some" /\ ReorgDetected(r.parent_root) -> "handle_reorged_slot"
      [] OTHER -> "update"

\* Whether the answer r of get_block_header(slot) is what a chain that does
\* not change answers, `block` being the last header the processor saw: a
\* block is not its own parent; a header at a later slot than `block` has
\* `block` (the nearest earlier header) as its parent; and a slot whose
\* header `block` is answers with that same header again.
HeaderOfUnchangedChain(slot, r, block) ==
    CASE r.tag = "Some" ->
           /\ r.parent_root # r.root
           /\ IsSome(block) =>
                 IF Unwrap(block).slot < slot
                   THEN r.parent_root = Unwrap(block).root
                   ELSE Unwrap(block).slot = slot /\ r.root = Unwrap(block).root
      [] r.tag = "None" -> ~(IsSome(block) /\ Unwrap(block).slot = slot)
      [] OTHER -> TRUE

\* _detect_and_handle_reorg up to the header fetch and the parent-root
\* comparison.
SlotsProcessor_get_block_header ==
    /\ processor = "SlotsProcessor"
    /\ pc = "get_block_header"
    /\ calls' = Append(calls, Call("get_block_header", current_slot, ""))
    /\ \E r \in BlockHeaderResponses :
         /\ header' = r
         /\ chain_unchanged' =
               (chain_unchanged /\ HeaderOfUnchangedChain(current_slot, r, last_block))
         /\ CASE HeaderStep(r) = "fail" ->
                   /\ outcome' = Err("get_block_header failed")
                   /\ pc' = "process_slots"
                   /\ UNCHANGED last_block
              [] HeaderStep(r) = "return" ->
                   /\ pc' = "get_block"
                   /\ UNCHANGED << last_block, outcome >>
              [] HeaderStep(r) = "handle_reorged_slot" ->
                   /\ pc' = "handle_reorged_slot"
                   /\ UNCHANGED << last_block, outcome >>
              [] HeaderStep(r) = "update" ->
                   /\ last_block' = Some(BlockData(r.root, current_slot))
                   /\ pc' = "get_block"
                   /\ UNCHANGED outcome
    /\ UNCHANGED << processor, initial_slot, final_slot, current_slot,
                    entry_last_block, entities, beacon_block, execution_block,
                    blobs, attempts, result >>

\* Mutant: last_block is assigned before handle_reorged_slot is awaited.
LastBlockAfterReorgFailure_assigned(block, root, slot) == Some(BlockData(root, slot))

\* .handle_reorged_slot(slot).await?: `?` returns the failure before the
\* assignment to last_block is reached, so last_block stays what it was.
LastBlockAfterReorgFailure(block, root, slot) == block

\* blobscan_client.handle_reorged_slot(slot).await?; then
\* self.last_block = Some(beacon_block_header.into())
SlotsProcessor_handle_reorged_slot ==
    /\ processor = "SlotsProcessor"
    /\ pc = "handle_reorged_slot"
    /\ calls' = Append(calls, Call("handle_reorged_slot", current_slot, ""))
    /\ \E r \in CallResults :
         IF r = "Err"
           THEN /\ outcome' = Err("handle_reorged_slot failed")
                /\ pc' = "process_slots"
                /\ last_block' = LastBlockAfterReorgFailure(last_block, header.root,
                                                             current_slot)
           ELSE /\ last_block' = Some(BlockData(header.root, current_slot))
                /\ pc' = "get_block"
                /\ UNCHANGED outcome
    /\ UNCHANGED << processor, initial_slot, final_slot, current_slot,
                    entry_last_block, chain_unchanged, fetched, attempts, result >>

\* ------------------------------------------------------------- correlator

RECURSIVE BlobTxs(_)
\* The transactions that declare versioned hashes, in block order.
BlobTxs(transactions) ==
    IF transactions = << >> THEN << >>
    ELSE LET tx == Head(transactions)
             rest == BlobTxs(Tail(transactions))
         IN IF tx.versioned_hashes # << >> THEN << tx >> \o rest ELSE rest

SeqRange(s) == { s[i] : i \in DOMAIN s }

\* Whether building the tx-hash -> versioned-hashes map fails: a declared
\* hash does not parse.
TxMappingFails(block) ==
    \E i \in DOMAIN block.transactions :
        MalformedHash \in SeqRange(block.transactions[i].versioned_hashes)

\* create_tx_hash_versioned_hashes_mapping(&execution_block): the map from the
\* hash of every transaction that declares versioned hashes to that list.
create_tx_hash_versioned_hashes_mapping(block) ==
    LET txs == BlobTxs(block.transactions)
    IN [h \in { txs[i].hash : i \in DOMAIN txs } |->
          txs[CHOOSE i \in DOMAIN txs : txs[i].hash = h].versioned_hashes ]

\* tx_hash_to_versioned_hashes.is_empty()
MappingIsEmpty(mapping) == DOMAIN mapping = {}

\* create_versioned_hash_blob_mapping(&blobs): the versioned hashes the
\* sidecar's commitments yield.
create_versioned_hash_blob_mapping(sidecar) ==
    { calculate_versioned_hash(sidecar[i].kzg_commitment) : i \in DOMAIN sidecar }

\* Some(commitments) => !commitments.is_empty(), None => false
has_kzg_blob_commitments(body) ==
    IF IsSome(body.blob_kzg_commitments)
      THEN Unwrap(body.blob_kzg_commitments) # << >>
      ELSE FALSE

\* ---------------------------------------------------------------- entities

\* Block entity: the execution block's hash and number with the slot.
BlockEntity(block, slot) ==
    [hash |-> ExecutionBlockHash, slot |-> slot, number |-> Unwrap(block.number)]

\* Transaction entity of a blob transaction.
TransactionEntity(tx) == [hash |-> tx.hash, to |-> Unwrap(tx.to)]

\* Mutant: the filter on the transactions is left out.
TransactionEntities_unfiltered(block) ==
    [i \in DOMAIN block.transactions |-> TransactionEntity(block.transactions[i])]

\* execution_block.transactions.iter().filter(contains_key(tx.hash)).map(..):
\* the blob transactions in block order.
TransactionEntities(block) ==
    LET txs == BlobTxs(block.transactions)
    IN [i \in DOMAIN txs |-> TransactionEntity(txs[i])]

BlobEntity(versioned_hash, commitment, index, tx_hash) ==
    [versioned_hash |-> versioned_hash, commitment |-> commitment,
     index |-> index, tx_hash |-> tx_hash]

\* versioned_hash_to_blob.get(versioned_hash): the sidecar blob whose
\* commitment yields the hash, None when the map has no such key.
versioned_hash_to_blob(sidecar, versioned_hash) ==
    LET found == { i \in DOMAIN sidecar :
                     calculate_versioned_hash(sidecar[i].kzg_commitment) = versioned_hash }
    IN IF found = {} THEN None
       ELSE Some(sidecar[CHOOSE i \in found : \A j \in found : j <= i])

\* The commitment of the blob a lookup found; 0 stands for a failed lookup.
CommitmentOf(lookup) == IF IsSome(lookup) THEN Unwrap(lookup).kzg_commitment ELSE 0

\* Blob::from((blob, versioned_hash, i, tx_hash)): the entity's index is the
\* position i (from enumerate, counted from 0) in the transaction's list.
BlobIndex(i, lookup) == i

\* The inner loop over versioned_hashes.iter().enumerate() of one transaction.
TxBlobEntities(tx, sidecar) ==
    [k \in DOMAIN tx.versioned_hashes |->
        LET lookup == versioned_hash_to_blob(sidecar, tx.versioned_hashes[k])
        IN BlobEntity(tx.versioned_hashes[k], CommitmentOf(lookup),
                      BlobIndex(k - 1, lookup), tx.hash)]

RECURSIVE Flatten(_)
\* The concatenation of a sequence of sequences.
Flatten(ss) == IF ss = << >> THEN << >> ELSE Head(ss) \o Flatten(Tail(ss))

\* The orders in which tx_hash_to_versioned_hashes.iter() may yield the n
\* entries of the map: the map does not fix one.
IterationOrders(n) ==
    { order \in [1 .. n -> 1 .. n] : \A i, j \in 1 .. n : order[i] = order[j] => i = j }

\* The outer loop over tx_hash_to_versioned_hashes.iter(), in one iteration
\* order of the map.
SlotsProcessor_blob_entities(block, sidecar, order) ==
    LET txs == BlobTxs(block.transactions)
    IN Flatten([k \in DOMAIN txs |-> TxBlobEntities(txs[order[k]], sidecar)])

\* blob.index.parse(): the number a decimal index string denotes.
ParseIndex(index) == CHOOSE n \in 0 .. 2 : ToString(n) = index

\* find_map over tx_to_versioned_hashes: a transaction whose list contains
\* the versioned hash.
FindTxHash(mapping, versioned_hash) ==
    CHOOSE h \in DOMAIN mapping : versioned_hash \in SeqRange(mapping[h])

\* blobs.iter().map(..): one blob entity per sidecar blob, in sidecar order,
\* with the sidecar's index.
SlotProcessor_blob_entities(block, sidecar) ==
    LET mapping == create_tx_hash_versioned_hashes_mapping(block)
    IN [i \in DOMAIN sidecar |->
          LET versioned_hash == calculate_versioned_hash(sidecar[i].kzg_commitment)
          IN BlobEntity(versioned_hash, sidecar[i].kzg_commitment,
                        ParseIndex(sidecar[i].index),
                        FindTxHash(mapping, versioned_hash))]

\* ------------------------------------- SlotsProcessor::process_slot (mod.rs)

\* What process_slot does with the answer of beacon_client.get_block: the
\* error, one of the three skips, or the execution block fetch.
SlotsProcessor_block_outcome(r) ==
    CASE r.tag = "Err" -> Err("get_block failed")
      [] r.tag = "None" -> Ok("skipped: no beacon block")
      [] r.tag = "Some" /\ ~IsSome(r.body.execution_payload) ->
            Ok("skipped: no execution payload")
      [] r.tag = "Some" /\ IsSome(r.body.execution_payload)
           /\ ~has_kzg_blob_commitments(r.body) ->
            Ok("skipped: no blob kzg commitments")
      [] OTHER -> Continue

SlotsProcessor_get_block ==
    /\ processor = "SlotsProcessor"
    /\ pc = "get_block"
    /\ calls' = Append(calls, Call("get_block", current_slot, ""))
    /\ \E r \in BlockResponses :
         /\ beacon_block' = r
         /\ LET o == SlotsProcessor_block_outcome(r)
            IN IF o = Continue
                 THEN pc' = "get_block_with_txs" /\ UNCHANGED outcome
                 ELSE pc' = "process_slots" /\ outcome' = o
    /\ UNCHANGED << processor, initial_slot, final_slot, current_slot, last_block,
                    entry_last_block, entities, chain_unchanged, header, execution_block,
                    blobs, attempts, result >>

\* What process_slot does with the answer of provider.get_block_with_txs.
SlotsProcessor_execution_block_outcome(r) ==
    CASE r.tag = "Err" -> Err("get_block_with_txs failed")
      [] r.tag = "None" -> Err("Execution block not found")
      [] r.tag = "Some" /\ TxMappingFails(r.block) ->
            Err("create_tx_hash_versioned_hashes_mapping failed")
      [] r.tag = "Some" /\ ~TxMappingFails(r.block)
           /\ MappingIsEmpty(create_tx_hash_versioned_hashes_mapping(r.block)) ->
            Err("Blocks mismatch")
      [] OTHER -> Continue

SlotsProcessor_get_block_with_txs ==
    /\ processor = "SlotsProcessor"
    /\ pc = "get_block_with_txs"
    /\ calls' = Append(calls, Call("get_block_with_txs", current_slot, ""))
    /\ \E r \in ExecutionBlockResponses :
         /\ execution_block' = r
         /\ LET o == SlotsProcessor_execution_block_outcome(r)
            IN IF o = Continue
                 THEN pc' = "get_blobs" /\ UNCHANGED outcome
                 ELSE pc' = "process_slots" /\ outcome' = o
    /\ UNCHANGED << processor, initial_slot, final_slot, current_slot, last_block,
                    entry_last_block, entities, chain_unchanged, header, beacon_block,
                    blobs, attempts, result >>

\* What process_slot does with the answer of beacon_client.get_blobs.
SlotsProcessor_blobs_outcome(r) ==
    CASE r.tag = "Err" -> Err("get_blobs failed")
      [] r.tag = "None" -> Ok("skipped: no blobs sidecar")
      [] r.tag = "Some" /\ r.blobs = << >> -> Ok("skipped: blobs sidecar is empty")
      [] OTHER -> Continue

SlotsProcessor_get_blobs ==
    /\ processor = "SlotsProcessor"
    /\ pc = "get_blobs"
    /\ calls' = Append(calls, Call("get_blobs", current_slot, ""))
    /\ \E r \in BlobsResponses :
         /\ blobs' = r
         /\ LET o == SlotsProcessor_blobs_outcome(r)
            IN IF o = Continue
                 THEN pc' = "index" /\ UNCHANGED outcome
                 ELSE pc' = "process_slots" /\ outcome' = o
    /\ UNCHANGED << processor, initial_slot, final_slot, current_slot, last_block,
                    entry_last_block, entities, chain_unchanged, header, beacon_block,
                    execution_block, attempts, result >>

\* Mutant: the lookup in the sidecar's map never fails.
SidecarNotFound_never(block, sidecar) == FALSE

\* Whether some declared versioned hash of a blob transaction has no blob in
\* the sidecar's map.
SidecarNotFound(block, sidecar) ==
    LET txs == BlobTxs(block.transactions)
        known == create_versioned_hash_blob_mapping(sidecar)
    IN \E i \in DOMAIN txs : \E j \in DOMAIN txs[i].versioned_hashes :
          txs[i].versioned_hashes[j] \notin known

\* The first failure of the entity assembly of process_slot, "" when the
\* entities are assembled.
SlotsProcessor_assembly_error(block, sidecar) ==
    LET txs == BlobTxs(block.transactions)
    IN CASE ~IsSome(block.number) -> "Block::try_from failed"
         [] IsSome(block.number) /\ (\E i \in DOMAIN txs : ~IsSome(txs[i].to)) ->
               "Transaction::try_from failed"
         [] IsSome(block.number) /\ (\A i \in DOMAIN txs : IsSome(txs[i].to))
              /\ SidecarNotFound(block, sidecar) -> "Sidecar not found for blob"
         [] OTHER -> ""

\* Entity assembly, then blobscan_client.index(block, transactions, blobs).
SlotsProcessor_index ==
    /\ processor = "SlotsProcessor"
    /\ pc = "index"
    /\ pc' = "process_slots"
    /\ LET e == SlotsProcessor_assembly_error(execution_block.block, blobs.blobs)
       IN IF e # ""
            THEN outcome' = Err(e) /\ UNCHANGED << calls, entities >>
            ELSE /\ calls' = Append(calls, Call("index", current_slot, ""))
                 /\ \E order \in IterationOrders(
                                    Len(BlobTxs(execution_block.block.transactions))) :
                      entities' =
                        [block |-> Some(BlockEntity(execution_block.block, current_slot)),
                         transactions |-> TransactionEntities(execution_block.block),
                         blobs |-> SlotsProcessor_blob_entities(
                                       execution_block.block, blobs.blobs, order)]
                 /\ \E r \in IndexResults :
                      outcome' = IF r = "Ok" THEN Ok("indexed") ELSE Err(IndexFailure(r))
    /\ UNCHANGED << processor, initial_slot, final_slot, current_slot, last_block,
                    entry_last_block, chain_unchanged, header, beacon_block,
                    execution_block, blobs, attempts, result >>

\* --------------------------------- SlotProcessor::process_slot (legacy file)

Transient(reason) == [kind |-> "transient", reason |-> reason]
Permanent(reason) == [kind |-> "permanent", reason |-> reason]

\* What process_slot does with the answer of beacon_client.get_block:
\* blob_kzg_commitments is only matched against None, an empty list goes on.
SlotProcessor_block_outcome(r) ==
    CASE r.tag = "Err" -> Transient("get_block failed")
      [] r.tag = "None" -> Ok("skipped: no beacon block")
      [] r.tag = "Some" /\ ~IsSome(r.body.execution_payload) ->
            Ok("skipped: no execution payload")
      [] r.tag = "Some" /\ IsSome(r.body.execution_payload)
           /\ ~IsSome(r.body.blob_kzg_commitments) ->
            Ok("skipped: no blob kzg commitments")
      [] OTHER -> Continue

SlotProcessor_get_block ==
    /\ processor = "SlotProcessor"
    /\ pc = "get_block"
    /\ calls' = Append(calls, Call("get_block", current_slot, ""))
    /\ \E r \in BlockResponses :
         /\ beacon_block' = r
         /\ LET o == SlotProcessor_block_outcome(r)
            IN IF o = Continue
                 THEN pc' = "get_block_with_txs" /\ UNCHANGED outcome
                 ELSE pc' = "retry" /\ outcome' = o
    /\ UNCHANGED << processor, initial_slot, final_slot, current_slot, last_block,
                    entry_last_block, entities, chain_unchanged, header, execution_block,
                    blobs, attempts, result >>

\* What process_slot does with the answer of provider.get_block_with_txs:
\* `?` on an anyhow error converts it into a permanent backoff error, and an
\* execution block without blob transactions is skipped.
SlotProcessor_execution_block_outcome(r) ==
    CASE r.tag = "Err" -> Permanent("Failed to fetch execution block")
      [] r.tag = "None" -> Permanent("Execution block not found")
      [] r.tag = "Some" /\ TxMappingFails(r.block) ->
            Permanent("BlockData::try_from failed")
      [] r.tag = "Some" /\ ~TxMappingFails(r.block)
           /\ MappingIsEmpty(create_tx_hash_versioned_hashes_mapping(r.block)) ->
            Ok("skipped: no blob txs")
      [] OTHER -> Continue

SlotProcessor_get_block_with_txs ==
    /\ processor = "SlotProcessor"
    /\ pc = "get_block_with_txs"
    /\ calls' = Append(calls, Call("get_block_with_txs", current_slot, ""))
    /\ \E r \in ExecutionBlockResponses :
         /\ execution_block' = r
         /\ LET o == SlotProcessor_execution_block_outcome(r)
            IN IF o = Continue
                 THEN pc' = "get_blobs" /\ UNCHANGED outcome
                 ELSE pc' = "retry" /\ outcome' = o
    /\ UNCHANGED << processor, initial_slot, final_slot, current_slot, last_block,
                    entry_last_block, entities, chain_unchanged, header, beacon_block,
                    blobs, attempts, result >>

SlotProcessor_blobs_outcome(r) ==
    CASE r.tag = "Err" -> Transient("get_blobs failed")
      [] r.tag = "None" -> Ok("skipped: no blobs sidecar")
      [] r.tag = "Some" /\ r.blobs = << >> -> Ok("skipped: blobs sidecar is empty")
      [] OTHER -> Continue

SlotProcessor_get_blobs ==
    /\ processor = "SlotProcessor"
    /\ pc = "get_blobs"
    /\ calls' = Append(calls, Call("get_blobs", current_slot, ""))
    /\ \E r \in BlobsResponses :
         /\ blobs' = r
         /\ LET o == SlotProcessor_blobs_outcome(r)
            IN IF o = Continue
                 THEN pc' = "index" /\ UNCHANGED outcome
                 ELSE pc' = "retry" /\ outcome' = o
    /\ UNCHANGED << processor, initial_slot, final_slot, current_slot, last_block,
                    entry_last_block, entities, chain_unchanged, header, beacon_block,
                    execution_block, attempts, result >>

\* blob.index.parse(): the decimal strings the model knows.
IndexParses(index) == index \in {"0", "1", "2"}

\* find_map over tx_to_versioned_hashes finds no transaction declaring the
\* versioned hash of some sidecar blob.
NoBlobTransactionFound(block, sidecar) ==
    LET mapping == create_tx_hash_versioned_hashes_mapping(block)
    IN \E i \in DOMAIN sidecar :
          \A h \in DOMAIN mapping :
              calculate_versioned_hash(sidecar[i].kzg_commitment)
                 \notin SeqRange(mapping[h])

\* The first failure of the entity assembly of process_slot, "" when the
\* entities are assembled.
SlotProcessor_assembly_error(block, sidecar) ==
    LET txs == BlobTxs(block.transactions)
    IN CASE ~IsSome(block.number) -> "Missing block number field"
         [] IsSome(block.number) /\ (\E i \in DOMAIN txs : ~IsSome(txs[i].to)) ->
               "Missing to field in transaction"
         [] IsSome(block.number) /\ (\A i \in DOMAIN txs : IsSome(txs[i].to))
              /\ NoBlobTransactionFound(block, sidecar) ->
               "No blob transaction found for commitment"
         [] IsSome(block.number) /\ (\A i \in DOMAIN txs : IsSome(txs[i].to))
              /\ ~NoBlobTransactionFound(block, sidecar)
              /\ (\E i \in DOMAIN sidecar : ~IndexParses(sidecar[i].index)) ->
               "blob index does not parse"
         [] OTHER -> ""

\* Entity assembly (its failures are permanent), then blobscan_client.index,
\* whose failure is mapped to a transient error.
SlotProcessor_index ==
    /\ processor = "SlotProcessor"
    /\ pc = "index"
    /\ pc' = "retry"
    /\ LET e == SlotProcessor_assembly_error(execution_block.block, blobs.blobs)
       IN IF e # ""
            THEN outcome' = Permanent(e) /\ UNCHANGED << calls, entities >>
            ELSE /\ calls' = Append(calls, Call("index", current_slot, ""))
                 /\ entities' =
                      [block |-> Some(BlockEntity(execution_block.block, current_slot)),
                       transactions |-> TransactionEntities(execution_block.block),
                       blobs |-> SlotProcessor_blob_entities(
                                     execution_block.block, blobs.blobs)]
                 /\ \E r \in IndexResults :
                      outcome' = IF r = "Ok" THEN Ok("indexed")
                                 ELSE Transient(IndexFailure(r))
    /\ UNCHANGED << processor, initial_slot, final_slot, current_slot, last_block,
                    entry_last_block, chain_unchanged, header, beacon_block,
                    execution_block, blobs, attempts, result >>

\* ------------------------------------------ SlotProcessor: retry and driver

\* Mutant: a permanent error is retried like a transient one.
BackoffDecisions_retry_permanent(kind, n) ==
    CASE kind = "ok" -> {"return"}
      [] OTHER -> IF n < MaxAttempts THEN {"retry", "give_up"} ELSE {"give_up"}

\* What the backoff may do with the return of attempt number n: return the
\* Ok, return a permanent error, and after a transient error either notify,
\* sleep and retry or, the budget being spent, return the error.  The budget
\* is elapsed time, so it may be spent after any attempt, and it is spent
\* after MaxAttempts attempts.
BackoffDecisions(kind, n) ==
    CASE kind = "ok" -> {"return"}
      [] kind = "permanent" -> {"give_up"}
      [] kind = "transient" ->
            IF n < MaxAttempts THEN {"retry", "give_up"} ELSE {"give_up"}

\* retry_notify: an attempt that returned Ok ends the retry; a permanent
\* error ends it with that error; after a transient error the backoff either
\* still has budget (notify, sleep, next attempt) or has run out of its
\* max_elapsed_time (the error is returned).
SlotProcessor_process_slot_with_retry ==
    /\ processor = "SlotProcessor"
    /\ pc = "retry"
    /\ \E decision \in BackoffDecisions(outcome.kind, attempts) :
         CASE decision = "return" ->
                /\ pc' = "process_slots"
                /\ UNCHANGED << outcome, calls, attempts, fetched >>
           [] decision = "retry" ->
                /\ calls' = calls \o << Call("retry_notify", current_slot, ""),
                                        Call("process_slot", current_slot, "") >>
                /\ attempts' = attempts + 1
                /\ pc' = "get_block"
                /\ outcome' = Pending
                /\ ResetFetched
           [] decision = "give_up" ->
                /\ pc' = "save_slot"
                /\ outcome' = Err(outcome.reason)
                /\ UNCHANGED << calls, attempts, fetched >>
    /\ UNCHANGED << processor, initial_slot, final_slot, current_slot, last_block,
                    entry_last_block, chain_unchanged, result >>

\* while current_slot < end_slot
LoopCondition(slot) == slot < final_slot

\* The loop of process_slots(start_slot, end_slot): after a slot that
\* succeeded current_slot += 1; while current_slot < end_slot the next slot
\* goes to process_slot_with_retry, and after the loop current_slot is saved.
SlotProcessor_process_slots ==
    /\ processor = "SlotProcessor"
    /\ pc = "process_slots"
    /\ LET slot == IF outcome = NoOutcome THEN initial_slot ELSE current_slot + 1
       IN /\ current_slot' = slot
          /\ IF LoopCondition(slot)
               THEN /\ calls' = Append(calls, Call("process_slot", slot, ""))
                    /\ attempts' = 1
                    /\ pc' = "get_block"
                    /\ outcome' = Pending
                    /\ ResetFetched
               ELSE /\ pc' = "save_slot"
                    /\ UNCHANGED << calls, attempts, outcome, fetched >>
    /\ UNCHANGED << processor, initial_slot, final_slot, last_block,
                    entry_last_block, chain_unchanged, result >>

ResultErr(error) == [kind |-> "Err", structured |-> FALSE, initial_slot |-> 0,
                     final_slot |-> 0, failed_slot |-> 0, error |-> error]

ResultPanic == [kind |-> "Panic", structured |-> FALSE, initial_slot |-> 0,
                final_slot |-> 0, failed_slot |-> 0, error |-> "subtract with overflow"]

\* The slot written on the abort path: current_slot - 1 on u32.
AbortSlot(slot) == (slot - 1) % SlotModulus

\* save_slot(current_slot - 1) on the abort path, save_slot(current_slot)
\* after the loop.  current_slot - 1 on a u32 of 0 panics where overflow
\* checks are compiled in and wraps where they are not.  A failed
\* update_slot is returned in place of the slot's error.
SlotProcessor_save_slot ==
    /\ processor = "SlotProcessor"
    /\ pc = "save_slot"
    /\ pc' = "done"
    /\ IF outcome.kind = "err"
         THEN \/ /\ current_slot = 0
                 /\ result' = ResultPanic
                 /\ UNCHANGED calls
              \/ /\ calls' = Append(calls, Call("update_slot", AbortSlot(current_slot), ""))
                 /\ \E r \in CallResults :
                      result' = IF r = "Ok" THEN ResultErr(outcome.reason)
                                ELSE ResultErr("update_slot failed")
         ELSE /\ calls' = Append(calls, Call("update_slot", current_slot, ""))
              /\ \E r \in CallResults :
                   result' = IF r = "Ok" THEN ResultOk ELSE ResultErr("update_slot failed")
    /\ UNCHANGED << processor, initial_slot, final_slot, current_slot, last_block,
                    entry_last_block, chain_unchanged, fetched, attempts, outcome >>

\* ----------------------------------------------------------- specification

Next ==
    \/ SlotsProcessor_process_slots
    \/ SlotsProcessor_get_block_header
    \/ SlotsProcessor_handle_reorged_slot
    \/ SlotsProcessor_get_block
    \/ SlotsProcessor_get_block_with_txs
    \/ SlotsProcessor_get_blobs
    \/ SlotsProcessor_index
    \/ SlotProcessor_process_slots
    \/ SlotProcessor_get_block
    \/ SlotProcessor_get_block_with_txs
    \/ SlotProcessor_get_blobs
    \/ SlotProcessor_index
    \/ SlotProcessor_process_slot_with_retry
    \/ SlotProcessor_save_slot

Spec == Init /\ [][Next]_vars

\* The range driver of slots_processor/mod.rs alone.
InitSlotsProcessor == Init /\ processor = "SlotsProcessor"

NextSlotsProcessor ==
    \/ SlotsProcessor_process_slots
    \/ SlotsProcessor_get_block_header
    \/ SlotsProcessor_handle_reorged_slot
    \/ SlotsProcessor_get_block
    \/ SlotsProcessor_get_block_with_txs
    \/ SlotsProcessor_get_blobs
    \/ SlotsProcessor_index

SpecSlotsProcessor == InitSlotsProcessor /\ [][NextSlotsProcessor]_vars

\* The range driver of slot_processor.rs alone.
InitSlotProcessor == Init /\ processor = "SlotProcessor"

NextSlotProcessor ==
    \/ SlotProcessor_process_slots
    \/ SlotProcessor_get_block
    \/ SlotProcessor_get_block_with_txs
    \/ SlotProcessor_get_blobs
    \/ SlotProcessor_index
    \/ SlotProcessor_process_slot_with_retry
    \/ SlotProcessor_save_slot

SpecSlotProcessor == InitSlotProcessor /\ [][NextSlotProcessor]_vars

\* ------------------------------------------------------- reading the trace

\* The calls of one kind, in order.
CallsOf(op) == SelectSeq(calls, LAMBDA c : c.op = op)

\* The slots process_slot was invoked on, in order.
VisitedSlots ==
    LET invocations == CallsOf("process_slot")
    IN [i \in DOMAIN invocations |-> invocations[i].slot]

\* The positions of the calls of one kind.
PositionsOf(op) == { i \in DOMAIN calls : calls[i].op = op }

\* Where the current process_slot attempt starts in the trace (0: none yet).
AttemptStart ==
    LET positions == PositionsOf("process_slot")
    IN IF positions = {} THEN 0
       ELSE CHOOSE i \in positions : \A j \in positions : j <= i

\* The calls the current attempt has made.
AttemptCalls == SubSeq(calls, AttemptStart + 1, Len(calls))
AttemptPositions(op) ==
    LET attempt == AttemptCalls
    IN { i \in DOMAIN attempt : attempt[i].op = op }
AttemptHas(op) == AttemptPositions(op) # {}

\* The current attempt has returned.
AttemptReturned == outcome.kind \in {"ok", "err", "transient", "permanent"}

\* process_slots returned an error because a slot failed.
Aborted == pc = "done" /\ outcome.kind = "err" /\ result.kind = "Err"

\* initial_slot, initial_slot + 1, ..., final_slot
Ascending == [i \in 1 .. (final_slot - initial_slot + 1) |-> initial_slot + i - 1]
\* initial_slot, initial_slot - 1, ..., final_slot
Descending == [i \in 1 .. (initial_slot - final_slot + 1) |-> initial_slot - i + 1]

\* Every process_slot invocation carried this enable_reorg_detection.
AllInvokedWith(arg) ==
    LET invocations == CallsOf("process_slot")
    IN \A i \in DOMAIN invocations : invocations[i].arg = arg

\* -------------------------------------------------------------------- C1

\* C1 (as stated, over both drivers): a forward range in which no slot fails
\* invokes the slot processor exactly once on each of initial_slot ..
\* final_slot, in increasing order, both endpoints included, and (where the
\* driver has the parameter) with reorg detection enabled.
C1_ForwardRangeInclusive ==
    (result.kind = "Ok" /\ initial_slot <= final_slot /\ CallsOf("retry_notify") = << >>)
        => /\ VisitedSlots = Ascending
           /\ processor = "SlotsProcessor" => AllInvokedWith("true")

\* The driver of slots_processor/mod.rs meets C1 (checked under
\* SpecSlotsProcessor).
SlotsProcessor_ForwardRangeInclusive ==
    (processor = "SlotsProcessor" /\ result.kind = "Ok" /\ initial_slot <= final_slot)
        => VisitedSlots = Ascending /\ AllInvokedWith("true")

\* -------------------------------------------------------------------- C2

\* C2: a reverse range of SlotsProcessor in which no slot fails invokes the
\* slot processor exactly once on each of initial_slot, initial_slot - 1, ..,
\* final_slot, in decreasing order, every time with reorg detection disabled;
\* no get_block_header and no handle_reorged_slot call is ever made in a
\* reverse range, and last_block keeps the value it had at the call.
C2_ReverseRange ==
    /\ [](is_reverse_processing =>
            /\ AllInvokedWith("false")
            /\ CallsOf("get_block_header") = << >>
            /\ CallsOf("handle_reorged_slot") = << >>
            /\ last_block = entry_last_block
            /\ result.kind = "Ok" => VisitedSlots = Descending)
    /\ [][is_reverse_processing => last_block' = last_block]_vars

\* A reverse range of three slots completed on a processor whose last_block
\* was set, with a slot indexed on the way.
C2_Witness ==
    /\ result.kind = "Ok"
    /\ initial_slot = final_slot + 2
    /\ IsSome(last_block)
    /\ CallsOf("index") # << >>

\* -------------------------------------------------------------------- C3

\* C3 (as stated): a forward range [a, b] that completes successfully calls
\* update_slot exactly once, with b, after the last index call and after
\* slot b itself has been processed.
C3_UpdateSlotAfterFinalSlot ==
    (result.kind = "Ok" /\ initial_slot <= final_slot)
        => /\ CallsOf("update_slot") = << Call("update_slot", final_slot, "") >>
           /\ \A u \in PositionsOf("update_slot") :
                /\ \A i \in PositionsOf("index") : i < u
                /\ \E k \in PositionsOf("process_slot") :
                      k < u /\ calls[k].slot = final_slot

\* -------------------------------------------------------------------- C4

\* C4 (as stated): whenever process_slots aborts because slot failed_slot
\* failed, update_slot(failed_slot - 1) is the one update_slot call of the run.
C4_AbortPersistsPreviousSlot ==
    (pc = "done" /\ outcome.kind = "err")
        => CallsOf("update_slot") = << Call("update_slot", current_slot - 1, "") >>

\* -------------------------------------------------------------------- C5

\* The slots of the traversal up to and including `slot`.
TraversedUpTo(slot) ==
    IF is_reverse_processing THEN slot .. initial_slot ELSE initial_slot .. slot

\* C5 (as stated, over both drivers): process_slots stops at the first
\* failing slot; the error it returns carries initial_slot, final_slot, the
\* failing slot and that slot's error; no later slot is fetched, checked for
\* reorg or submitted.
C5_AbortAtFirstFailure ==
    Aborted
        => /\ result = FailedSlotsProcessing(current_slot, outcome.reason)
           /\ \A i \in DOMAIN calls :
                 calls[i].op # "update_slot" => calls[i].slot \in TraversedUpTo(current_slot)
           /\ calls[AttemptStart].slot = current_slot

\* The driver of slots_processor/mod.rs meets C5 (checked under
\* SpecSlotsProcessor).
SlotsProcessor_AbortAtFirstFailure ==
    (processor = "SlotsProcessor" /\ Aborted)
        => /\ result = FailedSlotsProcessing(current_slot, outcome.reason)
           /\ \A i \in DOMAIN calls : calls[i].slot \in TraversedUpTo(current_slot)
           /\ calls[AttemptStart].slot = current_slot
           /\ VisitedSlots = SubSeq(IF is_reverse_processing THEN Descending ELSE Ascending,
                                    1, Len(VisitedSlots))

\* -------------------------------------------------------------------- C6

\* The beacon block of the current attempt is absent, or has no execution
\* payload, or its commitments are absent, or present but empty.
BeaconBlockAbsent == beacon_block.tag = "None"
NoExecutionPayload ==
    beacon_block.tag = "Some" /\ ~IsSome(beacon_block.body.execution_payload)
CommitmentsAbsent ==
    beacon_block.tag = "Some" /\ ~IsSome(beacon_block.body.blob_kzg_commitments)
CommitmentsEmpty ==
    /\ beacon_block.tag = "Some"
    /\ IsSome(beacon_block.body.blob_kzg_commitments)
    /\ Unwrap(beacon_block.body.blob_kzg_commitments) = << >>
SidecarAbsent == blobs.tag = "None"
SidecarEmpty == blobs.tag = "Some" /\ blobs.blobs = << >>

SkipCase ==
    \/ BeaconBlockAbsent \/ NoExecutionPayload \/ CommitmentsAbsent
    \/ CommitmentsEmpty \/ SidecarAbsent \/ SidecarEmpty

\* C6 (as stated, over both pipelines): in each of the six cases process_slot
\* returns a non-error outcome and makes no index call.
C6_SkipsWithoutIndex ==
    (AttemptReturned /\ SkipCase) => outcome.kind = "ok" /\ ~AttemptHas("index")

\* The pipeline of slots_processor/mod.rs meets C6 (checked under
\* SpecSlotsProcessor).
SlotsProcessor_SkipsWithoutIndex ==
    (processor = "SlotsProcessor" /\ AttemptReturned /\ SkipCase)
        => outcome.kind = "ok" /\ ~AttemptHas("index")

\* -------------------------------------------------------------------- C7

EarlySkipCase ==
    \/ BeaconBlockAbsent \/ NoExecutionPayload \/ CommitmentsAbsent
    \/ CommitmentsEmpty

\* get_blobs was called only after the execution block was fetched and its
\* tx-to-versioned-hashes map found non-empty.
BlobsAfterExecutionBlock ==
    AttemptHas("get_blobs")
        => /\ execution_block.tag = "Some"
           /\ ~MappingIsEmpty(create_tx_hash_versioned_hashes_mapping(execution_block.block))
           /\ \A b \in AttemptPositions("get_blobs") :
                 \E e \in AttemptPositions("get_block_with_txs") : e < b

\* C7 (as stated, over both pipelines): an absent beacon block, an absent
\* execution payload and absent or empty commitments each keep the attempt
\* from calling get_block_with_txs and get_blobs; get_blobs follows a fetched
\* execution block with a non-empty map.
C7_ShortCircuitOrder ==
    /\ EarlySkipCase => ~AttemptHas("get_block_with_txs") /\ ~AttemptHas("get_blobs")
    /\ BlobsAfterExecutionBlock

\* The pipeline of slots_processor/mod.rs meets C7 (checked under
\* SpecSlotsProcessor).
SlotsProcessor_ShortCircuitOrder ==
    processor = "SlotsProcessor" => C7_ShortCircuitOrder

\* -------------------------------------------------------------------- C8

\* The beacon block carries a commitment and the execution block that was
\* fetched has no transaction declaring versioned hashes.
MismatchCase ==
    /\ beacon_block.tag = "Some"
    /\ has_kzg_blob_commitments(beacon_block.body)
    /\ execution_block.tag = "Some"
    /\ ~TxMappingFails(execution_block.block)
    /\ MappingIsEmpty(create_tx_hash_versioned_hashes_mapping(execution_block.block))

\* C8 (as stated): in the mismatch case process_slot fails with the
\* beacon/execution mismatch error, fetches no sidecar and submits nothing,
\* and the range aborts with update_slot(slot - 1) written.
C8_MismatchAborts ==
    (AttemptReturned /\ MismatchCase)
        => /\ outcome.kind \in {"err", "permanent"}
           /\ outcome.reason = "Blocks mismatch"
           /\ ~AttemptHas("get_blobs")
           /\ ~AttemptHas("index")
           /\ pc = "done"
                => /\ result.kind = "Err"
                   /\ CallsOf("update_slot") = << Call("update_slot", current_slot - 1, "") >>

\* The pipeline of slots_processor/mod.rs fails the slot and aborts the range
\* in the mismatch case (checked under SpecSlotsProcessor); it writes no
\* update_slot.
SlotsProcessor_MismatchAborts ==
    (processor = "SlotsProcessor" /\ AttemptReturned /\ MismatchCase)
        => /\ outcome = Err("Blocks mismatch")
           /\ ~AttemptHas("get_blobs")
           /\ ~AttemptHas("index")
           /\ pc = "done" => result = FailedSlotsProcessing(current_slot, "Blocks mismatch")

\* -------------------------------------------------------------------- C9

\* The header fetched by the reorg check of the current process_slot does
\* not descend from last_block as it was when the check started.
ReorgCase ==
    /\ header.tag = "Some"
    /\ IsSome(entry_last_block)
    /\ header.parent_root # Unwrap(entry_last_block).root

\* The header fetched descends from last_block.
NoReorgCase ==
    /\ header.tag = "Some"
    /\ IsSome(entry_last_block)
    /\ header.parent_root = Unwrap(entry_last_block).root

\* C9: in the reorg case handle_reorged_slot(slot) is called exactly once,
\* right after the header fetch and before the beacon block fetch; once it
\* has succeeded the beacon block fetch follows and last_block is
\* (header.root, slot).  In the no-reorg case handle_reorged_slot is not
\* called and last_block is (header.root, slot) as well.
C9_ReorgHandledOnce ==
    /\ ReorgCase =>
         IF pc = "handle_reorged_slot"
           THEN /\ AttemptCalls = << Call("get_block_header", current_slot, "") >>
                /\ last_block = entry_last_block
           ELSE /\ Len(AttemptCalls) >= 2
                /\ AttemptCalls[1] = Call("get_block_header", current_slot, "")
                /\ AttemptCalls[2] = Call("handle_reorged_slot", current_slot, "")
                /\ AttemptPositions("handle_reorged_slot") = {2}
                /\ \A i \in AttemptPositions("get_block") : i > 2
                /\ outcome # Err("handle_reorged_slot failed") =>
                      /\ last_block = Some(BlockData(header.root, current_slot))
                      /\ pc = "get_block" \/ AttemptHas("get_block")
    /\ NoReorgCase =>
         /\ ~AttemptHas("handle_reorged_slot")
         /\ last_block = Some(BlockData(header.root, current_slot))
         /\ pc = "get_block" \/ AttemptHas("get_block")

\* A reorg was detected at the second slot of a forward range, after the
\* first slot set last_block; handle_reorged_slot succeeded and the slot was
\* indexed.
C9_Witness ==
    /\ ReorgCase
    /\ current_slot = initial_slot + 1
    /\ Unwrap(entry_last_block).slot = initial_slot
    /\ outcome = Ok("indexed")
    /\ AttemptHas("handle_reorged_slot")

\* ------------------------------------------------------------------- C10

\* C10: when the reorg check finds no header at the slot, last_block is left
\* as it was, handle_reorged_slot is not called, the check returns no error
\* and process_slot goes on to fetch the beacon block of the slot.
C10_AbsentHeaderLeavesState ==
    header.tag = "None" =>
        /\ last_block = entry_last_block
        /\ ~AttemptHas("handle_reorged_slot")
        /\ outcome.reason \notin {"get_block_header failed", "handle_reorged_slot failed"}
        /\ IF pc = "get_block"
             THEN AttemptCalls = << Call("get_block_header", current_slot, "") >>
             ELSE /\ Len(AttemptCalls) >= 2
                  /\ AttemptCalls[2] = Call("get_block", current_slot, "")

\* The header of a slot was absent while last_block was set, and the slot
\* went on to be indexed.
C10_Witness ==
    /\ header.tag = "None"
    /\ IsSome(entry_last_block)
    /\ outcome = Ok("indexed")

\* ------------------------------------------------------------------- C11

\* The number of process_slot attempts in a trace.
Attempts(trace) == Len(SelectSeq(trace, LAMBDA c : c.op = "process_slot"))

\* The backoff retries: one retry notification, then one more attempt on the
\* same slot, and nothing else.
Retries ==
    /\ calls' = calls \o << Call("retry_notify", current_slot, ""),
                            Call("process_slot", current_slot, "") >>
    /\ current_slot' = current_slot

\* The abort path is entered: no call is made, the next step is the
\* persistence of the abort (SlotProcessor) or the return of the error
\* (SlotsProcessor).
EntersAbortPath ==
    /\ calls' = calls
    /\ outcome'.kind = "err"
    /\ pc' \in {"save_slot", "done"}

CallsOn(op, slot) == SelectSeq(calls, LAMBDA c : c.op = op /\ c.slot = slot)

\* The slot of the last process_slot attempt.
AttemptSlot == calls[AttemptStart].slot

\* The attempts on a slot are over and the last one succeeded.
SlotSucceeded ==
    /\ AttemptStart > 0
    /\ outcome.kind = "ok"
    /\ pc \in {"process_slots", "save_slot", "done"}

\* C12 (as stated, over both drivers): a timeout of get_block_with_txs is a
\* transient failure of the attempt, which the retry takes up; and when the
\* attempts on a slot end with a success after k transient failures, k + 1
\* attempts were made on the slot, k retry notifications were emitted, the
\* successful attempt made the one index submission that succeeded (unless it
\* skipped the slot), and the range goes on without an abort.
C12_TransientThenSuccess ==
    /\ [](SlotSucceeded =>
            /\ Len(CallsOn("process_slot", AttemptSlot))
                  = Len(CallsOn("retry_notify", AttemptSlot)) + 1
            /\ processor = "SlotProcessor" =>
                  Len(CallsOn("process_slot", AttemptSlot)) = attempts
            /\ outcome.reason = "indexed" => Cardinality(AttemptPositions("index")) = 1
            /\ Len(CallsOn("index", AttemptSlot))
                  <= Len(CallsOn("process_slot", AttemptSlot))
            /\ result.kind \in {"running", "Ok"} \/ result.error = "update_slot failed")
    /\ [][(execution_block.tag # "Err" /\ execution_block'.tag = "Err")
            => (outcome'.kind = "transient" /\ pc' = "retry")]_vars

\* The retry of slot_processor.rs meets the counting part of C12 for the
\* failures it classifies as transient (checked under SpecSlotProcessor): a
\* slot that succeeded at attempt k + 1 had k retry notifications, and its
\* earlier attempts all failed with a transient error after which nothing
\* was submitted successfully.
SlotProcessor_TransientThenSuccess ==
    (processor = "SlotProcessor" /\ SlotSucceeded) =>
        /\ Len(CallsOn("process_slot", AttemptSlot)) = attempts
        /\ Len(CallsOn("retry_notify", AttemptSlot)) = attempts - 1
        /\ outcome.reason = "indexed" => Cardinality(AttemptPositions("index")) = 1
        /\ Len(CallsOn("index", AttemptSlot)) <= attempts
        /\ pc = "done" => (result.kind = "Ok" \/ result.error = "update_slot failed")

\* ------------------------------------------------------------------- C13

\* The versioned hashes the blob transactions of a block declare.
DeclaredHashes(block) ==
    UNION { SeqRange(block.transactions[i].versioned_hashes) :
              i \in DOMAIN block.transactions }

\* The hashes of the transactions of a block that declare versioned hashes.
BlobTxHashes(block) ==
    { block.transactions[i].hash :
        i \in { j \in DOMAIN block.transactions :
                  block.transactions[j].versioned_hashes # << >> } }

\* Nothing stands in the way of a complete entity set: the block has its
\* number, every blob transaction its `to`, every declared versioned hash its
\* blob in the sidecar.
AssembledWithoutError(block, sidecar) ==
    /\ IsSome(block.number)
    /\ \A i \in DOMAIN block.transactions :
          block.transactions[i].versioned_hashes # << >> => IsSome(block.transactions[i].to)
    /\ DeclaredHashes(block) \subseteq create_versioned_hash_blob_mapping(sidecar)

\* The entity set handed to index is the whole slot: the block entity, every
\* blob-declaring transaction, a blob for every declared versioned hash.
CompleteEntities ==
    /\ entities.block = Some(BlockEntity(execution_block.block, AttemptSlot))
    /\ { entities.transactions[i].hash : i \in DOMAIN entities.transactions }
          = BlobTxHashes(execution_block.block)
    /\ { entities.blobs[i].versioned_hash : i \in DOMAIN entities.blobs }
          = DeclaredHashes(execution_block.block)

\* The attempt ended in a failure that is not the failure of index itself.
FailedBeforeIndex ==
    /\ outcome.kind \in {"err", "transient", "permanent"}
    /\ outcome.reason \notin {IndexFailure("Http4xx"), IndexFailure("NetworkError"),
                              "update_slot failed"}

\* C13 (as stated, over both drivers): an attempt makes at most one index
\* call; the call is made only when the block, every blob transaction and
\* every declared blob could be assembled, and it carries all of them; an
\* attempt that failed before the submission made no index call.
C13_AllOrNothing ==
    /\ Cardinality(AttemptPositions("index")) <= 1
    /\ AttemptHas("index") =>
         /\ AssembledWithoutError(execution_block.block, blobs.blobs)
         /\ CompleteEntities
    /\ ~AttemptHas("index") => entities = NoEntities
    /\ FailedBeforeIndex => ~AttemptHas("index")

\* The pipeline of slots_processor/mod.rs meets C13 (checked under
\* SpecSlotsProcessor).
SlotsProcessor_AllOrNothing ==
    processor = "SlotsProcessor" =>
        /\ Cardinality(AttemptPositions("index")) <= 1
        /\ AttemptHas("index") =>
             /\ AssembledWithoutError(execution_block.block, blobs.blobs)
             /\ CompleteEntities
             /\ Len(entities.blobs) = Cardinality(DeclaredHashes(execution_block.block))
        /\ ~AttemptHas("index") => entities = NoEntities
        /\ FailedBeforeIndex => ~AttemptHas("index")

\* ------------------------------------------------------------------- C14

\* The transactions of the execution block with a given hash.
TxsWithHash(hash) ==
    { i \in DOMAIN execution_block.block.transactions :
        execution_block.block.transactions[i].hash = hash }

\* Blob entity b names a transaction that declares b.versioned_hash at the
\* position b.index of its list (positions counted from 0).
IndexIsPositionInTx(b) ==
    \E i \in TxsWithHash(b.tx_hash) :
        LET versioned_hashes == execution_block.block.transactions[i].versioned_hashes
        IN /\ b.versioned_hash \in SeqRange(versioned_hashes)
           /\ b.index + 1 \in DOMAIN versioned_hashes
           /\ versioned_hashes[b.index + 1] = b.versioned_hash

\* C14 (as stated, over both pipelines): every submitted blob entity carries
\* a versioned hash its transaction declares, and its index is the position
\* of that hash in the transaction's list.
C14_BlobIndexIsPositionInTx ==
    \A i \in DOMAIN entities.blobs : IndexIsPositionInTx(entities.blobs[i])

\* The pipeline of slots_processor/mod.rs meets C14 (checked under
\* SpecSlotsProcessor).
SlotsProcessor_BlobIndexIsPositionInTx ==
    processor = "SlotsProcessor" =>
        \A i \in DOMAIN entities.blobs : IndexIsPositionInTx(entities.blobs[i])

\* ------------------------------------------------------------------- C15

\* C15 (as stated, over both drivers): an index call that failed with an
\* HTTP 4xx is a permanent failure of the attempt (never a transient one, so
\* that it is not retried), and an index call that failed with a network
\* error is a transient failure handed to the retry.
C15_IndexFailureClassified ==
    /\ outcome.reason = IndexFailure("Http4xx") => outcome.kind \in {"permanent", "err"}
    /\ (outcome.reason = IndexFailure("NetworkError") /\ pc \notin {"save_slot", "done"})
          => (outcome.kind = "transient" /\ pc = "retry")

\* ------------------------------------------------------------------- C16

\* The task that runs process_slots is never suspended for ever: every call
\* it awaits is answered, so the step that is enabled is eventually taken.
SpecSlotProcessorFair == SpecSlotProcessor /\ WF_vars(NextSlotProcessor)

\* C16: process_slots of slot_processor.rs over any range eventually returns
\* Ok or an error, however the attempts fail.
C16_RangeReturns == <>(pc = "done" /\ result.kind \in {"Ok", "Err"})

\* The retry loop of every slot ends after at most MaxAttempts attempts and
\* process_slots eventually leaves every range (checked under
\* SpecSlotProcessorFair): by returning Ok or an error, or by the panic of
\* current_slot - 1 on the abort path of slot 0.
SlotProcessor_RetryLoopTerminates ==
    /\ [](attempts <= MaxAttempts)
    /\ <>(pc = "done" /\ result.kind \in {"Ok", "Err", "Panic"})

\* ------------------------------------------------------------------- C17



\* The attempt reached the assembly with a sidecar that has no blob for some
\* versioned hash a blob transaction of the execution block declares.
MissingLookup ==
    /\ execution_block.tag = "Some"
    /\ blobs.tag = "Some"
    /\ blobs.blobs # << >>
    /\ ~(DeclaredHashes(execution_block.block)
            \subseteq create_versioned_hash_blob_mapping(blobs.blobs))

\* C17: when a declared versioned hash has no blob in the sidecar's map the
\* attempt of slots_processor/mod.rs fails, makes no index call and assembles
\* nothing for submission; the failure is final: the range is aborted with
\* it, and no further attempt is made.
C17_MissingLookupFails ==
    MissingLookup =>
        /\ ~AttemptHas("index")
        /\ entities = NoEntities
        /\ pc \in {"index", "process_slots", "done"}
        /\ pc = "index" => outcome = Pending
        /\ pc # "index" => outcome.kind = "err"
        /\ pc = "done" =>
              /\ result = FailedSlotsProcessing(AttemptSlot, outcome.reason)
              /\ current_slot = AttemptSlot

\* The range was aborted because the sidecar had the blob of one of the
\* three versioned hashes the slot's transactions declare.
C17_Witness ==
    /\ MissingLookup
    /\ pc = "done"
    /\ outcome = Err("Sidecar not found for blob")
    /\ Cardinality(DeclaredHashes(execution_block.block)) = 3
    /\ Len(blobs.blobs) = 1

\* ------------------------------------------------------------------- C18

\* The transactions of the execution block that declare versioned hashes, in
\* the order of the block.
DeclaringTxs ==
    SelectSeq(execution_block.block.transactions,
              LAMBDA tx : tx.versioned_hashes # << >>)

\* The blob entities of one transaction are next to each other.
BlobsGroupedByTx ==
    \A i, j, k \in DOMAIN entities.blobs :
        (i < j /\ j < k /\ entities.blobs[i].tx_hash = entities.blobs[k].tx_hash)
            => entities.blobs[j].tx_hash = entities.blobs[i].tx_hash

\* Within one transaction the blob entities come by increasing position.
BlobsOrderedInTx ==
    \A i, j \in DOMAIN entities.blobs :
        (i < j /\ entities.blobs[i].tx_hash = entities.blobs[j].tx_hash)
            => entities.blobs[i].index < entities.blobs[j].index

\* Every position of the versioned-hash list of every declaring transaction
\* has exactly one blob entity, and there is no other blob entity.
OneBlobPerDeclaredHash ==
    /\ \A t \in DOMAIN DeclaringTxs :
          \A k \in DOMAIN DeclaringTxs[t].versioned_hashes :
              Cardinality({ i \in DOMAIN entities.blobs :
                              /\ entities.blobs[i].tx_hash = DeclaringTxs[t].hash
                              /\ entities.blobs[i].index = k - 1
                              /\ entities.blobs[i].versioned_hash
                                    = DeclaringTxs[t].versioned_hashes[k] }) = 1
    /\ \A i \in DOMAIN entities.blobs : IndexIsPositionInTx(entities.blobs[i])

\* C18: in every submission of slots_processor/mod.rs the transaction
\* entities are the declaring transactions in execution-block order, the
\* blob entities are grouped by transaction and ordered by position inside
\* a group, and every declared versioned hash has exactly one blob entity.
C18_SubmissionOrder ==
    AttemptHas("index") =>
        /\ [i \in DOMAIN entities.transactions |-> entities.transactions[i].hash]
              = [i \in DOMAIN DeclaringTxs |-> DeclaringTxs[i].hash]
        /\ BlobsGroupedByTx
        /\ BlobsOrderedInTx
        /\ OneBlobPerDeclaredHash

\* A slot with two declaring transactions around a plain one was indexed:
\* two transaction entities in block order, three blob entities, those of
\* the second transaction first.
C18_Witness ==
    /\ outcome = Ok("indexed")
    /\ Len(execution_block.block.transactions) = 3
    /\ Len(entities.transactions) = 2
    /\ Len(entities.blobs) = 3
    /\ entities.blobs[1].tx_hash = entities.transactions[2].hash

\* ------------------------------------------------------------------- C19

\* The reorg check of the current attempt failed in handle_reorged_slot.
ReorgHandlingFailed == outcome = Err("handle_reorged_slot failed")

\* C19: when handle_reorged_slot fails, process_slot returns that failure
\* having called nothing but get_block_header and handle_reorged_slot: no
\* beacon block, execution block or sidecar is fetched, nothing is
\* submitted, and last_block is what it was when process_slot was entered;
\* process_slots aborts with that failure.  last_block differs from its
\* value at entry only after a check that succeeded on a present header.
C19_ReorgFailureKeepsState ==
    /\ ReorgHandlingFailed =>
         /\ AttemptCalls = << Call("get_block_header", AttemptSlot, ""),
                              Call("handle_reorged_slot", AttemptSlot, "") >>
         /\ last_block = entry_last_block
         /\ beacon_block = NoBlock
         /\ execution_block = NoExecutionBlock
         /\ blobs = NoBlobs
         /\ entities = NoEntities
         /\ pc \in {"process_slots", "done"}
         /\ pc = "done" =>
               result = FailedSlotsProcessing(AttemptSlot, "handle_reorged_slot failed")
    /\ last_block # entry_last_block =>
         /\ header.tag = "Some"
         /\ last_block = Some(BlockData(header.root, current_slot))
         /\ outcome.reason \notin {"get_block_header failed", "handle_reorged_slot failed"}
         /\ pc # "handle_reorged_slot"

\* The reorg handling failed at the second slot of a range, after the first
\* slot had been indexed and had set last_block; the range was aborted.
C19_Witness ==
    /\ ReorgHandlingFailed
    /\ pc = "done"
    /\ current_slot = initial_slot + 1
    /\ IsSome(last_block)
    /\ Unwrap(last_block).slot = initial_slot
    /\ CallsOf("index") # << >>

\* ------------------------------------------------------------------- C20

\* handle_reorged_slot is called, or about to be called, in the current
\* attempt.
ReorgReported == pc = "handle_reorged_slot" \/ AttemptHas("handle_reorged_slot")

\* C20: in a forward range over a chain that does not change, on a processor
\* whose last_block is unset or a block of that chain, handle_reorged_slot is
\* never called.
C20_NoFalseReorg ==
    (chain_unchanged /\ ~is_reverse_processing)
        => (CallsOf("handle_reorged_slot") = << >> /\ pc # "handle_reorged_slot")

\* Over a chain that does not change, slots_processor/mod.rs reports a reorg
\* only at a slot whose own header last_block already holds, that is at a
\* slot it is attempting again (checked under SpecSlotsProcessor): missed
\* and skipped slots never lead to a report.
SlotsProcessor_FalseReorgOnlyOnReattempt ==
    (chain_unchanged /\ ReorgReported)
        => /\ IsSome(entry_last_block)
           /\ Unwrap(entry_last_block).slot = current_slot
           /\ Unwrap(entry_last_block).root = header.root

\* ------------------------------------------------------------------- C21

\* The slots of this run whose processing succeeded before the range was
\* aborted at current_slot: the range stops at its first failing slot, so
\* they are the slots handed to process_slot other than the failing one.
SucceededSlots ==
    { calls[i].slot : i \in PositionsOf("process_slot") } \ { current_slot }

\* The range was aborted by a failing slot (the task returned or panicked).
AbortedAt == pc = "done" /\ outcome.kind = "err"

\* C21 (as stated, over both drivers): on every abort, whatever the failed
\* slot and the direction, no arithmetic panic occurs, and every value passed
\* to update_slot is current_slot - 1 computed without u32 wraparound and is
\* a slot that was processed successfully in this run (no update_slot call
\* at all when no slot succeeded).
C21_AbortSlotWithoutWraparound ==
    AbortedAt
        => /\ result.kind # "Panic"
           /\ \A u \in PositionsOf("update_slot") :
                /\ current_slot - 1 \in Slots
                /\ calls[u].slot = current_slot - 1
                /\ calls[u].slot \in SucceededSlots

\* The driver of slots_processor/mod.rs never computes a slot on abort: it
\* persists nothing and cannot panic, in either direction and at slot 0
\* (checked under SpecSlotsProcessor).
SlotsProcessor_NoSlotPersistedOnAbort ==
    (processor = "SlotsProcessor" /\ AbortedAt)
        => /\ result.kind = "Err"
           /\ result.failed_slot = current_slot
           /\ CallsOf("update_slot") = << >>

\* The driver of slot_processor.rs meets C21 exactly when the failing slot is
\* not the first of the range (checked under SpecSlotProcessor).
SlotProcessor_AbortSlotAfterFirstSlot ==
    (processor = "SlotProcessor" /\ AbortedAt /\ current_slot > initial_slot)
        => /\ result.kind # "Panic"
           /\ CallsOf("update_slot") = << Call("update_slot", current_slot - 1, "") >>
           /\ current_slot - 1 \in SucceededSlots

====
